---- MODULE Spec2Model ----
(***************************************************************************)
(* Model of the Makela carpooling client: the ride tables it reads and     *)
(* writes, the FindRideScreen filter/sort pipeline, the two booking entry  *)
(* flows, the booking confirmation (payment) screen, the post-ride screens *)
(* and the three ride list queries.                                        *)
(*                                                                         *)
(* Every passenger uses a device of their own; screen state is therefore   *)
(* a function of the passenger.  The backend tables are shared.            *)
(***************************************************************************)
EXTENDS Integers, Sequences, FiniteSets, TLC

(***************************************************************************)
(* Bounds of the model.                                                    *)
(***************************************************************************)
MaxLen == 2        \* longest ride list handed to the filter/sort pipeline
MaxPrice == 2      \* largest price_per_seat of a generated ride
MaxSeats == 2      \* largest available_seats of a generated ride
MaxTime == 2       \* last instant of the clock / latest departure_time
TicksPerDay == 2   \* instants per calendar day
MaxRides == 2      \* rides posted
MaxRows == 2       \* booking rows in the two booking tables together
MaxPayments == 1   \* calls of processPayment
MaxTopUps == 2     \* payment requests made from AddMoneyScreen
MaxAuthEvents == 3 \* sign-ins and sign-outs
MaxChecks == 2     \* profile queries of a root layout in flight at once
MaxMessages == 2   \* rows of the backend table messages

Passengers == {"p1", "p2"}
Dev == "p1"        \* the device whose FindRideScreen pipeline is exercised

\* JavaScript values of type number | null, tagged so that they compare.
null == [t |-> "null"]
NaN == [t |-> "NaN"]
Num(n) == [t |-> "number", v |-> n]

VARIABLES
    ridesTable,          \* backend table rides: row id = position
    bookings,            \* backend table bookings
    passenger_requests,  \* backend table passenger_requests
    now,                 \* the clock (new Date())
    rides,               \* FindRideScreen.rides, per device
    loading,             \* FindRideScreen.loading, per device
    sortBy,              \* FindRideScreen.sortBy, per device
    minPrice,            \* FindRideScreen.minPrice, per device
    maxPrice,            \* FindRideScreen.maxPrice, per device
    minSeats,            \* FindRideScreen.minSeats, per device
    selectedDate,        \* FindRideScreen.selectedDate, per device
    data,                \* FlatList data of FindRideScreen, per device
    ridesScreenRides,    \* RidesScreen.rides, per device
    ridesScreenError,    \* RidesScreen.error, per device
    ridesScreenLoading,  \* RidesScreen.loading, per device
    bookingRideId,       \* route parameter rideId of BookingConfirmationScreen (0: not open)
    bookingRide,         \* BookingConfirmationScreen.ride: id of the loaded ride, or 0
    bookingLoading,      \* BookingConfirmationScreen.loading
    bookingError,        \* BookingConfirmationScreen.error
    transactions,        \* backend table transactions
    wallet_balance,      \* profiles.wallet_balance, per user
    paymentResponses,    \* every PaymentResponse processPayment has returned
    paymentMode,         \* EXPO_PUBLIC_PAYMENT_MODE of the build
    availableRides,      \* HomeScreen.availableRides, per device
    postError,           \* PostRideScreen.error (map version), per device
    isOnline,            \* DriverDashboard.isOnline, per device
    dashboardLoading,    \* DriverDashboard.loading, per device
    dashboardStats,      \* DriverDashboard.stats, per device
    driver_status,       \* backend table driver_status: is_online per driver
    payment_requests,    \* backend table payment_requests: row id = position
    addMoneyLoading,     \* AddMoneyScreen.loading, per device
    gatewayTimer,        \* the payment request a device's setTimeout callback waits for (0: none)
    authSession,         \* the session of the supabase auth client on device Dev
    authEvents,          \* number of auth events emitted
    flagsInbox,          \* auth events not yet handled by the listener of the flags layout
    isAuthenticated,     \* RootLayout.isAuthenticated (flags layout)
    isProfileComplete,   \* RootLayout.isProfileComplete (flags layout)
    rootLoading,         \* RootLayout.loading (flags layout)
    checkAuthStatePc,    \* where checkAuthState of the flags layout stands
    flagsChecks,         \* checkProfileSetup queries started by the listener, in flight
    guardInbox,          \* auth events not yet handled by the listener of the guard layout
    guardInitializing,   \* RootLayout.initializing (guard layout)
    guardSession,        \* RootLayout.session (guard layout)
    route,               \* the current route; its first segment is segments[0]
    guardChecks,         \* checkProfile queries of the guard layout in flight
    redirects,           \* the router.replace targets issued by the last handler
    messagesTable,       \* backend table messages: row id = position
    chatUserId,          \* route parameter userId of ChatScreen, per session (noUser: not mounted)
    currentUser,         \* ChatScreen.currentUser, per session
    messages,            \* ChatScreen.messages, per session
    chatLoading,         \* ChatScreen.loading, per session
    chatChannels,        \* the chat_id filters of the session's chat_messages channels
    chatPending          \* the awaits and realtime events of a session not yet resumed

tableVars == <<ridesTable, bookings, passenger_requests>>
findVars == <<rides, loading, sortBy, minPrice, maxPrice, minSeats, selectedDate, data>>
ridesScreenVars == <<ridesScreenRides, ridesScreenError, ridesScreenLoading>>
bookingVars == <<bookingRideId, bookingRide, bookingLoading, bookingError>>
paymentVars == <<transactions, wallet_balance, paymentResponses, paymentMode>>
dashboardVars == <<isOnline, dashboardLoading, dashboardStats, driver_status>>
topUpVars == <<payment_requests, addMoneyLoading, gatewayTimer>>
accountVars == <<dashboardVars, topUpVars>>
authClientVars == <<authSession, authEvents>>
flagsVars == <<flagsInbox, isAuthenticated, isProfileComplete, rootLoading, checkAuthStatePc,
               flagsChecks>>
guardVars == <<guardInbox, guardInitializing, guardSession, route, guardChecks, redirects>>
authVars == <<authClientVars, flagsVars, guardVars>>
chatVars == <<messagesTable, chatUserId, currentUser, messages, chatLoading, chatChannels,
              chatPending>>
sessionVars == <<authVars, chatVars>>
restVars == <<paymentVars, availableRides, postError, accountVars, sessionVars>>
vars == <<tableVars, now, findVars, ridesScreenVars, bookingVars, restVars>>

(***************************************************************************)
(* JavaScript helpers.                                                     *)
(***************************************************************************)
Digits == {"0", "1", "2", "3", "4", "5", "6", "7", "8", "9"}

DigitVal(c) ==
    CASE c = "0" -> 0 [] c = "1" -> 1 [] c = "2" -> 2 [] c = "3" -> 3 [] c = "4" -> 4
      [] c = "5" -> 5 [] c = "6" -> 6 [] c = "7" -> 7 [] c = "8" -> 8 [] c = "9" -> 9

\* The value of the longest digit prefix of text, continuing from acc.
RECURSIVE DigitPrefix(_, _)
DigitPrefix(text, acc) ==
    IF text = <<>> \/ Head(text) \notin Digits THEN acc
    ELSE DigitPrefix(Tail(text), acc * 10 + DigitVal(Head(text)))

\* parseInt(text): optional sign, then decimal digits; NaN without a digit.
\* A text is a sequence of one-character strings.
parseInt(text) ==
    LET neg == text # <<>> /\ Head(text) = "-"
        body == IF text # <<>> /\ Head(text) \in {"-", "+"} THEN Tail(text) ELSE text
    IN  IF body = <<>> \/ Head(body) \notin Digits THEN NaN
        ELSE IF neg THEN Num(0 - DigitPrefix(body, 0)) ELSE Num(DigitPrefix(body, 0))

\* JavaScript truthiness of a number | null.
Truthy(x) == x # null /\ x # NaN /\ x # Num(0)

\* The calendar day (year, month, date) of an instant.
DayOf(t) == t \div TicksPerDay

(***************************************************************************)
(* FindRideScreen: the filter/sort pipeline.                               *)
(***************************************************************************)
SortOption == {"price_asc", "price_desc", "date_asc", "date_desc", "seats_asc", "seats_desc"}

\* A comparator whose seats_desc case orders ascending.
compareSeatsSwapped(k, a, b) ==
    CASE k = "price_asc"  -> a.price_per_seat - b.price_per_seat
      [] k = "price_desc" -> b.price_per_seat - a.price_per_seat
      [] k = "date_asc"   -> a.departure_time - b.departure_time
      [] k = "date_desc"  -> b.departure_time - a.departure_time
      [] k = "seats_asc"  -> a.available_seats - b.available_seats
      [] k = "seats_desc" -> a.available_seats - b.available_seats
      [] OTHER            -> 0

\* The comparator of sortRides: negative when a goes before b.
compare(k, a, b) ==
    CASE k = "price_asc"  -> a.price_per_seat - b.price_per_seat
      [] k = "price_desc" -> b.price_per_seat - a.price_per_seat
      [] k = "date_asc"   -> a.departure_time - b.departure_time
      [] k = "date_desc"  -> b.departure_time - a.departure_time
      [] k = "seats_asc"  -> a.available_seats - b.available_seats
      [] k = "seats_desc" -> b.available_seats - a.available_seats
      [] OTHER            -> 0

\* An insertion that puts x in front of the elements it ties with.
RECURSIVE insertSortedBeforeTies(_, _, _)
insertSortedBeforeTies(k, x, s) ==
    IF s = <<>> THEN <<x>>
    ELSE IF compare(k, Head(s), x) < 0
         THEN <<Head(s)>> \o insertSortedBeforeTies(k, x, Tail(s))
    ELSE <<x>> \o s

\* Array.prototype.sort is stable: x goes behind every element that does not
\* compare greater than it.
RECURSIVE insertSorted(_, _, _)
insertSorted(k, x, s) ==
    IF s = <<>> THEN <<x>>
    ELSE IF compare(k, Head(s), x) <= 0 THEN <<Head(s)>> \o insertSorted(k, x, Tail(s))
    ELSE <<x>> \o s

RECURSIVE sortInto(_, _, _)
sortInto(k, todo, done) ==
    IF todo = <<>> THEN done
    ELSE sortInto(k, Tail(todo), insertSorted(k, Head(todo), done))

\* A sort that leaves tied rides in the reverse of their input order.
sortRidesTiesReversed(k, list) ==
    sortInto(k, [i \in 1..Len(list) |-> list[Len(list) + 1 - i]], <<>>)

\* sortRides: [...rides].sort(comparator of sortBy)
sortRides(k, list) == sortInto(k, list, <<>>)

\* The predicate of filterRides for one ride.
keepRide(f, ride) ==
    /\ ~(Truthy(f.minPrice) /\ ride.price_per_seat < f.minPrice.v)
    /\ ~(Truthy(f.maxPrice) /\ ride.price_per_seat > f.maxPrice.v)
    /\ ~(Truthy(f.minSeats) /\ ride.available_seats < f.minSeats.v)
    /\ (f.selectedDate # null => DayOf(ride.departure_time) = DayOf(f.selectedDate.v))

\* filterRides: rides.filter(predicate)
filterRides(f, list) == SelectSeq(list, LAMBDA ride : keepRide(f, ride))

\* The filter state of the device of passenger p.
filterOf(p) ==
    [minPrice |-> minPrice[p], maxPrice |-> maxPrice[p],
     minSeats |-> minSeats[p], selectedDate |-> selectedDate[p]]

\* FlatList data = sortRides(filterRides(rides))
pipeline(k, f, list) == sortRides(k, filterRides(f, list))

\* An evaluation that sorts the array it is handed in place before filtering it.
evalPipelineSortingInput(k, f, list) ==
    [rides |-> sortInto(k, list, <<>>), result |-> filterRides(f, sortInto(k, list, <<>>))]

\* The arrays after sortRides(filterRides(rides)) has been evaluated on the
\* array rides = list: Array.prototype.filter builds a new array, sortRides
\* spreads its argument into a copy and Array.prototype.sort reorders that copy
\* in place.  rides: the array handed in; result: the array returned.
evalPipeline(k, f, list) ==
    LET h0 == [rides |-> list]
        h1 == [rides |-> h0.rides, filtered |-> filterRides(f, h0.rides)]
        h2 == [rides |-> h1.rides, filtered |-> h1.filtered,
               copy |-> sortRides(k, h1.filtered)]
    IN  [rides |-> h2.rides, result |-> h2.copy]


(***************************************************************************)
(* Ride rows.                                                              *)
(***************************************************************************)
RideStatus == {"pending", "confirmed", "in_progress", "completed", "cancelled"}

noAddress == "none"   \* a ride row without origin_address / destination_address

RideRow(id, departure_time, price_per_seat, available_seats, status, origin, destination) ==
    [id |-> id, departure_time |-> departure_time, price_per_seat |-> price_per_seat,
     available_seats |-> available_seats, status |-> status,
     origin_address |-> origin, destination_address |-> destination]

\* A ride from Kampala to Gulu.
Ride(id, departure_time, price_per_seat, available_seats, status) ==
    RideRow(id, departure_time, price_per_seat, available_seats, status, "Kampala", "Gulu")

\* What a ride list query can hand to FindRideScreen: pending rides with a seat.
LoadedAttrs == [departure_time : 0..MaxTime, price_per_seat : 1..MaxPrice,
                available_seats : 1..MaxSeats]

mkRides(a) ==
    [i \in DOMAIN a |-> Ride(i, a[i].departure_time, a[i].price_per_seat,
                             a[i].available_seats, "pending")]

LoadedLists ==
    UNION { { mkRides(a) : a \in [1..n -> LoadedAttrs] } : n \in 0..MaxLen }

\* The three rides of the documented scenario: 2024-06-01, 2024-06-01, 2024-06-02.
ExampleRides ==
    << Ride(1, 0, 50000, 3, "pending"),
       Ride(2, 0, 30000, 1, "pending"),
       Ride(3, TicksPerDay, 40000, 5, "pending") >>

\* Texts typed into the numeric filter inputs.
FilterTexts == { <<>>, <<"0">>, <<"2">> }

(***************************************************************************)
(* FindRideScreen: state changes; every one re-renders the list.           *)
(***************************************************************************)
noError == "none"   \* a screen's error state null

\* The routes of the app that the root layouts tell apart.
Routes == {"index", "(auth)/verify", "(auth)/otp", "(auth)/profile-setup", "(tabs)",
           "post-ride", "booking", "chat", "wallet"}

\* The root layouts right after mounting: getSession is awaited, the listeners
\* are subscribed, nobody is signed in, the app shows its entry route.
InitAuth ==
    /\ authSession = "nobody"
    /\ authEvents = 0
    /\ flagsInbox = <<>>
    /\ isAuthenticated = FALSE
    /\ isProfileComplete = FALSE
    /\ rootLoading = TRUE
    /\ checkAuthStatePc = "getSession"
    /\ flagsChecks = <<>>
    /\ guardInbox = <<>>
    /\ guardInitializing = TRUE
    /\ guardSession = "nobody"
    /\ route = "index"
    /\ guardChecks = <<>>
    /\ redirects = <<>>
noRow == "none"     \* no row of the driver in driver_status

\* The ChatScreen instances (one per device) and the user signed in on each:
\* two devices of u1 and one of u2.
Sessions == {1, 2, 3}
deviceUser(s) == IF s = 3 THEN "u2" ELSE "u1"
Users == {"u1", "u2"}

\* No ChatScreen is mounted, the table messages is empty: useState([]),
\* useState(true), useState<User | null>(null).
InitChat ==
    /\ messagesTable = <<>>
    /\ chatUserId = [s \in Sessions |-> "nobody"]
    /\ currentUser = [s \in Sessions |-> "nobody"]
    /\ messages = [s \in Sessions |-> <<>>]
    /\ chatLoading = [s \in Sessions |-> TRUE]
    /\ chatChannels = [s \in Sessions |-> <<>>]
    /\ chatPending = [s \in Sessions |-> <<>>]

InitScreens ==
    /\ availableRides = [p \in Passengers |-> <<>>]
    /\ postError = [p \in Passengers |-> noError]
    /\ ridesScreenError = [p \in Passengers |-> noError]
    /\ bookingRideId = [p \in Passengers |-> 0]
    /\ bookingRide = [p \in Passengers |-> 0]
    /\ bookingLoading = [p \in Passengers |-> TRUE]
    /\ bookingError = [p \in Passengers |-> noError]
    /\ sortBy = [p \in Passengers |-> "date_asc"]
    /\ minPrice = [p \in Passengers |-> null]
    /\ maxPrice = [p \in Passengers |-> null]
    /\ minSeats = [p \in Passengers |-> null]
    /\ selectedDate = [p \in Passengers |-> null]
    /\ isOnline = [p \in Passengers |-> FALSE]
    /\ dashboardLoading = [p \in Passengers |-> TRUE]
    /\ dashboardStats = [p \in Passengers |-> [completedRides |-> 0, todayRides |-> <<>>]]
    /\ addMoneyLoading = [p \in Passengers |-> FALSE]
    /\ gatewayTimer = [p \in Passengers |-> 0]
    /\ InitAuth
    /\ InitChat

InitPayments(modes) ==
    /\ transactions = <<>>
    /\ wallet_balance = [u \in Passengers |-> 0]
    /\ paymentResponses = <<>>
    /\ paymentMode \in modes
    /\ payment_requests = <<>>
    /\ driver_status = [u \in Passengers |-> noRow]

\* The state after the mount effect's loadRides returned list on device Dev.
InitPipeline ==
    /\ InitPayments({"sandbox"})
    /\ ridesTable = <<>>
    /\ bookings = <<>>
    /\ passenger_requests = <<>>
    /\ now = 0
    /\ InitScreens
    /\ ridesScreenRides = [p \in Passengers |-> <<>>]
    /\ ridesScreenLoading = [p \in Passengers |-> TRUE]
    /\ loading = [p \in Passengers |-> p # Dev]
    /\ \E list \in LoadedLists \cup {ExampleRides} :
          /\ rides = [p \in Passengers |-> IF p = Dev THEN list ELSE <<>>]
          /\ data = [p \in Passengers |->
                        IF p = Dev THEN pipeline("date_asc", filterOf(p), list) ELSE <<>>]

\* onChangeText of a numeric filter input: text ? parseInt(text) : null
inputValue(text) == IF text # <<>> THEN parseInt(text) ELSE null

\* A render evaluates the pipeline on the state array rides.
render(p, k, f) ==
    /\ data' = [data EXCEPT ![p] = evalPipeline(k, f, rides[p]).result]
    /\ rides' = [rides EXCEPT ![p] = evalPipeline(k, f, rides[p]).rides]

setSortBy(p, option) ==
    /\ sortBy' = [sortBy EXCEPT ![p] = option]
    /\ render(p, option, filterOf(p))
    /\ UNCHANGED <<tableVars, now, restVars, ridesScreenVars, bookingVars,
                 loading, minPrice, maxPrice, minSeats, selectedDate>>

setMinPrice(p, text) ==
    /\ minPrice' = [minPrice EXCEPT ![p] = inputValue(text)]
    /\ render(p, sortBy[p], [filterOf(p) EXCEPT !.minPrice = inputValue(text)])
    /\ UNCHANGED <<tableVars, now, restVars, ridesScreenVars, bookingVars,
                 loading, sortBy, maxPrice, minSeats, selectedDate>>

setMaxPrice(p, text) ==
    /\ maxPrice' = [maxPrice EXCEPT ![p] = inputValue(text)]
    /\ render(p, sortBy[p], [filterOf(p) EXCEPT !.maxPrice = inputValue(text)])
    /\ UNCHANGED <<tableVars, now, restVars, ridesScreenVars, bookingVars,
                 loading, sortBy, minPrice, minSeats, selectedDate>>

setMinSeats(p, text) ==
    /\ minSeats' = [minSeats EXCEPT ![p] = inputValue(text)]
    /\ render(p, sortBy[p], [filterOf(p) EXCEPT !.minSeats = inputValue(text)])
    /\ UNCHANGED <<tableVars, now, restVars, ridesScreenVars, bookingVars,
                 loading, sortBy, minPrice, maxPrice, selectedDate>>

\* DateTimePicker onChange with a date; minimumDate is the current instant.
setSelectedDate(p, date) ==
    /\ date >= now
    /\ selectedDate' = [selectedDate EXCEPT ![p] = Num(date)]
    /\ render(p, sortBy[p], [filterOf(p) EXCEPT !.selectedDate = Num(date)])
    /\ UNCHANGED <<tableVars, now, restVars, ridesScreenVars, bookingVars,
                 loading, sortBy, minPrice, maxPrice, minSeats>>

NextPipeline ==
    \/ \E option \in SortOption : setSortBy(Dev, option)
    \/ \E text \in FilterTexts : setMinPrice(Dev, text)
    \/ \E text \in FilterTexts : setMaxPrice(Dev, text)
    \/ \E text \in FilterTexts : setMinSeats(Dev, text)
    \/ \E date \in 0..MaxTime : setSelectedDate(Dev, date)

SpecPipeline == InitPipeline /\ [][NextPipeline]_vars

(***************************************************************************)
(* Claims about the pipeline.                                              *)
(***************************************************************************)
Range(s) == { s[i] : i \in 1..Len(s) }

\* The predicates of a filter spec that are present, as the contract reads them.
satisfiesPresent(f, ride) ==
    /\ (f.minPrice # null => ride.price_per_seat >= f.minPrice.v)
    /\ (f.maxPrice # null => ride.price_per_seat <= f.maxPrice.v)
    /\ (f.minSeats # null => ride.available_seats >= f.minSeats.v)
    /\ (f.selectedDate # null => DayOf(ride.departure_time) = DayOf(f.selectedDate.v))

\* C1: the rides shown are exactly the loaded rides that satisfy every present
\* predicate of the filter spec (price bounds, minimum seats, calendar day).
C1_FilterConjunction ==
    \A p \in Passengers : \A i \in 1..Len(rides[p]) :
        (rides[p][i] \in Range(data[p])) <=> satisfiesPresent(filterOf(p), rides[p][i])

\* The field a sort key orders by, negated for the descending keys.
sortKeyOf(k, ride) ==
    CASE k = "price_asc"  -> ride.price_per_seat
      [] k = "price_desc" -> 0 - ride.price_per_seat
      [] k = "date_asc"   -> ride.departure_time
      [] k = "date_desc"  -> 0 - ride.departure_time
      [] k = "seats_asc"  -> ride.available_seats
      [] k = "seats_desc" -> 0 - ride.available_seats

isPermutation(s, t) ==
    /\ Len(s) = Len(t)
    /\ \A x \in Range(s) \cup Range(t) :
          Cardinality({ i \in 1..Len(s) : s[i] = x }) = Cardinality({ i \in 1..Len(t) : t[i] = x })

\* C10: the list shown is a permutation of the filtered rides, ordered by the
\* field of the sort key in the direction of the sort key; the documented
\* scenario (minSeats 2, price_asc) shows the 40000 ride and then the 50000 ride.
C10_SortOrder ==
    \A p \in Passengers :
        /\ isPermutation(data[p], filterRides(filterOf(p), rides[p]))
        /\ \A i, j \in 1..Len(data[p]) :
              i < j => sortKeyOf(sortBy[p], data[p][i]) <= sortKeyOf(sortBy[p], data[p][j])
        /\ ( /\ rides[p] = ExampleRides
             /\ filterOf(p) = [minPrice |-> null, maxPrice |-> null,
                               minSeats |-> Num(2), selectedDate |-> null]
             /\ sortBy[p] = "price_asc" )
           => [i \in 1..Len(data[p]) |-> data[p][i].price_per_seat] = <<40000, 50000>>

\* C10 witness: the documented scenario has been rendered.
C10_Witness ==
    /\ rides[Dev] = ExampleRides
    /\ minSeats[Dev] = Num(2)
    /\ sortBy[Dev] = "price_asc"
    /\ Len(data[Dev]) = 2
    /\ data[Dev][1].price_per_seat < data[Dev][2].price_per_seat

\* The position of ride x in list s (ride ids are distinct).
positionIn(s, x) == CHOOSE n \in 1..Len(s) : s[n] = x

\* C11: the list shown is what a second application of the pipeline to the same
\* rides, filter and sort key yields, and two shown rides with equal sort-key
\* values stand in the order they have in the loaded list.
C11_StableDeterministic ==
    \A p \in Passengers :
        /\ data[p] = pipeline(sortBy[p], filterOf(p), rides[p])
        /\ \A i, j \in 1..Len(rides[p]) :
              ( /\ i < j
                /\ keepRide(filterOf(p), rides[p][i])
                /\ keepRide(filterOf(p), rides[p][j])
                /\ sortKeyOf(sortBy[p], rides[p][i]) = sortKeyOf(sortBy[p], rides[p][j]) )
              => /\ rides[p][i] \in Range(data[p])
                 /\ rides[p][j] \in Range(data[p])
                 /\ positionIn(data[p], rides[p][i]) < positionIn(data[p], rides[p][j])

\* C11 witness: a sort key other than the initial one has been chosen and two
\* different rides with equal values of it are shown.
C11_Witness ==
    /\ sortBy[Dev] # "date_asc"
    /\ \E i, j \in 1..Len(data[Dev]) :
          /\ i < j
          /\ data[Dev][i] # data[Dev][j]
          /\ sortKeyOf(sortBy[Dev], data[Dev][i]) = sortKeyOf(sortBy[Dev], data[Dev][j])

\* C12: applying the pipeline to the list shown, with the same filter spec and
\* sort key, yields the list shown again.
C12_Idempotent ==
    \A p \in Passengers :
        pipeline(sortBy[p], filterOf(p), data[p]) = data[p]

\* C12 witness: a price floor is in force, a sort key has been chosen and two
\* different rides that tie on it are shown.
C12_Witness ==
    /\ minPrice[Dev] = Num(2)
    /\ sortBy[Dev] = "price_desc"
    /\ Len(data[Dev]) = 2
    /\ data[Dev][1] # data[Dev][2]
    /\ data[Dev][1].price_per_seat = data[Dev][2].price_per_seat

\* C14: when both price bounds are present and minPrice > maxPrice, no ride is
\* shown.
C14_MalformedBoundsEmpty ==
    \A p \in Passengers :
        ( /\ minPrice[p].t = "number"
          /\ maxPrice[p].t = "number"
          /\ minPrice[p].v > maxPrice[p].v )
        => data[p] = <<>>

\* C16: a render leaves the loaded list as it was: a step that changes the
\* sort key or the filter spec does not change rides, and the array handed to
\* the pipeline holds the same rides in the same order afterwards.
C16_InputUnchanged ==
    [][ \A p \in Passengers :
          /\ evalPipeline(sortBy[p], filterOf(p), rides[p]).rides = rides[p]
          /\ (sortBy'[p] # sortBy[p] \/ filterOf(p)' # filterOf(p)) => rides'[p] = rides[p] ]_vars

\* C16 witness: the list shown is ordered differently from the loaded list.
C16_Witness ==
    /\ Len(data[Dev]) = Len(rides[Dev])
    /\ data[Dev] # rides[Dev]
    /\ sortBy[Dev] # "date_asc"


(***************************************************************************)
(* Ride list queries.                                                      *)
(***************************************************************************)
\* FindRideScreen.loadRides: status pending, departure_time >= now, a free seat.
findQuery(table, t) ==
    SelectSeq(table, LAMBDA r : /\ r.status = "pending"
                                /\ r.departure_time >= t
                                /\ r.available_seats > 0)

(***************************************************************************)
(* The booking flows.                                                      *)
(***************************************************************************)
noUser == "nobody"   \* supabase.auth.getUser() without a session

\* Two posted rides that every list query returns.
SeedTables ==
    { << Ride(1, MaxTime, 1, s1, "pending"), Ride(2, MaxTime, 1, s2, "pending") >> :
        s1 \in 1..MaxSeats, s2 \in 1..MaxSeats }

\* The state after every device has mounted its list screens and loaded them.
InitBooking(modes) ==
    /\ InitPayments(modes)
    /\ ridesTable \in SeedTables
    /\ bookings = <<>>
    /\ passenger_requests = <<>>
    /\ now = 0
    /\ InitScreens
    /\ rides = [p \in Passengers |-> findQuery(ridesTable, now)]
    /\ data = [p \in Passengers |-> pipeline("date_asc", filterOf(p), findQuery(ridesTable, now))]
    /\ ridesScreenRides = [p \in Passengers |-> findQuery(ridesTable, now)]
    /\ ridesScreenLoading = [p \in Passengers |-> FALSE]
    /\ loading = [p \in Passengers |-> FALSE]

Init == InitBooking({"sandbox"})

rowCount == Len(bookings) + Len(passenger_requests)

\* router.push('/booking/<rideId>'): a fresh BookingConfirmationScreen.
openBooking(p, rideId) ==
    /\ bookingRideId' = [bookingRideId EXCEPT ![p] = rideId]
    /\ bookingRide' = [bookingRide EXCEPT ![p] = 0]
    /\ bookingLoading' = [bookingLoading EXCEPT ![p] = TRUE]
    /\ bookingError' = [bookingError EXCEPT ![p] = noError]

\* FindRideScreen.handleBookRide, pressed on a card of the list shown.
\* user: the session's user; ok: the insert succeeded.
handleBookRide(p, rideId, user, ok) ==
    /\ \E i \in 1..Len(data[p]) : data[p][i].id = rideId
    /\ user # noUser
    /\ rowCount < MaxRows
    /\ IF ok
       THEN /\ bookings' = Append(bookings, [ride_id |-> rideId, passenger_id |-> user,
                                             seats_booked |-> 1, status |-> "pending"])
            /\ openBooking(p, rideId)
       ELSE UNCHANGED <<bookings, bookingVars>>
    /\ UNCHANGED <<ridesTable, passenger_requests, now, restVars, findVars, ridesScreenVars>>

\* RidesScreen.handleBooking, pressed on a card of the list.
handleBooking(p, rideId, user, ok) ==
    /\ ~ridesScreenLoading[p]
    /\ \E i \in 1..Len(ridesScreenRides[p]) : ridesScreenRides[p][i].id = rideId
    /\ user # noUser
    /\ rowCount < MaxRows
    /\ IF ok
       THEN /\ passenger_requests' = Append(passenger_requests,
                   [ride_id |-> rideId, passenger_id |-> user, status |-> "pending"])
            /\ openBooking(p, rideId)
            /\ UNCHANGED ridesScreenVars
       ELSE /\ ridesScreenError' = [ridesScreenError EXCEPT ![p] = "Failed to book ride"]
            /\ UNCHANGED <<passenger_requests, bookingVars, ridesScreenRides, ridesScreenLoading>>
    /\ UNCHANGED <<ridesTable, bookings, now, restVars, findVars>>

\* BookingConfirmationScreen.loadRideDetails, run by the mount effect.
loadRideDetails(p, ok) ==
    /\ bookingRideId[p] # 0
    /\ bookingLoading[p]
    /\ IF ok /\ bookingRideId[p] \in 1..Len(ridesTable)
       THEN /\ bookingRide' = [bookingRide EXCEPT ![p] = bookingRideId[p]]
            /\ UNCHANGED bookingError
       ELSE /\ bookingError' = [bookingError EXCEPT ![p] = "Failed to load ride details"]
            /\ UNCHANGED bookingRide
    /\ bookingLoading' = [bookingLoading EXCEPT ![p] = FALSE]
    /\ UNCHANGED <<tableVars, now, restVars, findVars, ridesScreenVars, bookingRideId>>

\* A pay update that toggles: a row already paid goes back to pending.
markPaidToggling(table, rideId, user) ==
    [i \in 1..Len(table) |->
        IF table[i].ride_id = rideId /\ table[i].passenger_id = user
        THEN [table[i] EXCEPT !.status = IF @ = "paid" THEN "pending" ELSE "paid"]
        ELSE table[i]]

\* update({status: 'paid'}).eq('ride_id', rideId).eq('passenger_id', user)
markPaid(table, rideId, user) ==
    [i \in 1..Len(table) |->
        IF table[i].ride_id = rideId /\ table[i].passenger_id = user
        THEN [table[i] EXCEPT !.status = "paid"]
        ELSE table[i]]

\* BookingConfirmationScreen.handlePayment: the Pay Now button, shown once the
\* ride is loaded.  ok: the update succeeded.
handlePayment(p, user, ok) ==
    /\ ~bookingLoading[p]
    /\ bookingRide[p] # 0
    /\ user # noUser
    /\ IF ok
       THEN /\ passenger_requests' = markPaid(passenger_requests, bookingRideId[p], user)
            /\ UNCHANGED bookingError
       ELSE /\ bookingError' = [bookingError EXCEPT ![p] = "Failed to process payment"]
            /\ UNCHANGED passenger_requests
    /\ UNCHANGED <<ridesTable, bookings, now, restVars, findVars, ridesScreenVars,
                   bookingRideId, bookingRide, bookingLoading>>

Next ==
    \/ \E p \in Passengers, rideId \in 1..Len(ridesTable), ok \in BOOLEAN :
          \E user \in {p, noUser} : handleBookRide(p, rideId, user, ok)
    \/ \E p \in Passengers, rideId \in 1..Len(ridesTable), ok \in BOOLEAN :
          \E user \in {p, noUser} : handleBooking(p, rideId, user, ok)
    \/ \E p \in Passengers, ok \in BOOLEAN : loadRideDetails(p, ok)
    \/ \E p \in Passengers, ok \in BOOLEAN :
          \E user \in {p, noUser} : handlePayment(p, user, ok)

Spec == Init /\ [][Next]_vars


(***************************************************************************)
(* PaymentService.                                                         *)
(***************************************************************************)
\* The update_wallet_balance procedure of the backend: add p_amount to the
\* balance of p_user_id.
update_wallet_balance(balance, p_user_id, p_amount) ==
    [balance EXCEPT ![p_user_id] = @ + p_amount]

\* PaymentService.createTransaction + processPayment.  request: [userId, amount];
\* insertOk, updateOk, rpcOk: the three backend calls succeeded.  The results of
\* the update and of the procedure call are not inspected.
processPayment(request, insertOk, updateOk, rpcOk) ==
    LET reference == Len(transactions) + 1
        created == Append(transactions, [reference |-> reference, status |-> "pending",
                                         user_id |-> request.userId, amount |-> request.amount])
        completed == IF updateOk THEN [created EXCEPT ![reference].status = "completed"]
                     ELSE created
        failure == [status |-> "error", transaction_id |-> 0, userId |-> request.userId,
                    amount |-> request.amount]
    IN  /\ Len(paymentResponses) < MaxPayments
        /\ IF ~insertOk
           THEN /\ paymentResponses' = Append(paymentResponses, failure)
                /\ UNCHANGED <<transactions, wallet_balance>>
           ELSE IF paymentMode = "sandbox"
           THEN /\ transactions' = completed
                /\ wallet_balance' =
                      IF request.userId # noUser /\ rpcOk
                      THEN update_wallet_balance(wallet_balance, request.userId, request.amount)
                      ELSE wallet_balance
                /\ paymentResponses' = Append(paymentResponses,
                      [status |-> "success", transaction_id |-> reference,
                       userId |-> request.userId, amount |-> request.amount])
           ELSE /\ transactions' = created
                /\ paymentResponses' = Append(paymentResponses, failure)
                /\ UNCHANGED wallet_balance
        /\ UNCHANGED <<tableVars, now, findVars, ridesScreenVars, bookingVars,
                       paymentMode, availableRides, postError, accountVars, sessionVars>>

PaymentRequests == [userId : Passengers \cup {noUser}, amount : 1..MaxPrice]

InitPayment == InitBooking({"sandbox", "production"})

NextPayment ==
    \/ Next
    \/ \E request \in PaymentRequests, insertOk \in BOOLEAN, updateOk \in BOOLEAN,
          rpcOk \in BOOLEAN : processPayment(request, insertOk, updateOk, rpcOk)

SpecPayment == InitPayment /\ [][NextPayment]_vars


(***************************************************************************)
(* Claims about the booking flows.                                         *)
(***************************************************************************)
RideIds == 1..Len(ridesTable)

\* Seats held on ride r by bookings that are not cancelled; a passenger
\* request stands for the one seat the confirmation screen charges.
seatsHeld(r, bookingRows, requestRows) ==
    Cardinality({ i \in 1..Len(bookingRows) :
                    bookingRows[i].ride_id = r /\ bookingRows[i].status # "cancelled" })
    + Cardinality({ i \in 1..Len(requestRows) :
                    requestRows[i].ride_id = r /\ requestRows[i].status # "cancelled" })

\* C2: on every ride the seats of its non-cancelled bookings never exceed the
\* seats the ride was posted with (no operation changes available_seats).
C2_SeatInvariant ==
    \A r \in RideIds :
        seatsHeld(r, bookings, passenger_requests) <= ridesTable[r].available_seats

lifecycleStep(a, b) ==
    \/ a = b
    \/ <<a, b>> \in { <<"pending", "paid">>, <<"paid", "confirmed">>,
                      <<"pending", "confirmed">>, <<"pending", "cancelled">>,
                      <<"paid", "cancelled">> }

lifecycleTable(old, new) ==
    /\ Len(new) >= Len(old)
    /\ \A i \in 1..Len(old) : lifecycleStep(old[i].status, new[i].status)
    /\ \A i \in (Len(old) + 1)..Len(new) : new[i].status = "pending"

\* C3: every booking starts pending and each change of its status is a step
\* along pending -> paid -> confirmed, pending -> cancelled or paid ->
\* cancelled; confirmed and cancelled are never left.
C3_Lifecycle ==
    [][ /\ lifecycleTable(bookings, bookings')
        /\ lifecycleTable(passenger_requests, passenger_requests') ]_vars

\* C3 witness: a booking has been paid, and a second press of Pay Now is possible.
C3_Witness ==
    \E i \in 1..Len(passenger_requests) :
        /\ passenger_requests[i].status = "paid"
        /\ bookingRide[passenger_requests[i].passenger_id] = passenger_requests[i].ride_id

\* C5: a booking is only created while the ride still has a free seat for it:
\* whenever a step adds held seats to a ride, the total stays within the
\* ride's available_seats (otherwise the request is rejected, nothing changes).
C5_SeatsUnavailable ==
    [][ \A r \in RideIds :
          seatsHeld(r, bookings', passenger_requests') > seatsHeld(r, bookings, passenger_requests)
          => seatsHeld(r, bookings', passenger_requests') <= ridesTable[r].available_seats ]_vars

\* Rows of ride r that go from pending to paid in the step.
paidNow(r) ==
    { i \in 1..Len(passenger_requests) :
        /\ passenger_requests[i].ride_id = r
        /\ passenger_requests[i].status = "pending"
        /\ passenger_requests'[i].status = "paid" }

\* C6: a step that moves bookings of a ride from pending to paid lowers the
\* ride's available_seats by their seats, and no other pay step lowers it.
C6_DecrementOnce ==
    [][ \A r \in RideIds :
          ridesTable'[r].available_seats
              = ridesTable[r].available_seats - Cardinality(paidNow(r)) ]_vars

\* C8: a booking is paid only after processPayment returned a success response.
C8_PaidAfterCharge ==
    (\E i \in 1..Len(passenger_requests) : passenger_requests[i].status = "paid")
    => \E k \in 1..Len(paymentResponses) : paymentResponses[k].status = "success"

\* C21: when processPayment returns 'success', the transaction of the returned
\* reference is 'completed' and, with a userId, the user's wallet balance has
\* grown by the amount; when it returns 'error', no wallet balance has changed.
C21_ResultAgrees ==
    [][ Len(paymentResponses') > Len(paymentResponses) =>
          LET response == paymentResponses'[Len(paymentResponses')]
          IN  IF response.status = "success"
              THEN /\ response.transaction_id \in 1..Len(transactions')
                   /\ transactions'[response.transaction_id].status = "completed"
                   /\ response.userId # noUser =>
                         wallet_balance'[response.userId]
                            = wallet_balance[response.userId] + response.amount
              ELSE wallet_balance' = wallet_balance ]_vars

\* C9: when the pay step fails, the passenger's bookings of that ride are
\* cancelled and the ride's available_seats stays as it was.
C9_FailedPayCancels ==
    [][ \A p \in Passengers :
          ( /\ bookingError[p] # "Failed to process payment"
            /\ bookingError'[p] = "Failed to process payment" )
          => /\ ridesTable' = ridesTable
             /\ \A i \in 1..Len(passenger_requests') :
                   ( /\ passenger_requests'[i].ride_id = bookingRideId[p]
                     /\ passenger_requests'[i].passenger_id = p )
                   => passenger_requests'[i].status = "cancelled" ]_vars

\* The booking flows where every mounted confirmation screen gets to run its
\* mount effect; presses of buttons are up to the user.
SpecMounted ==
    Spec /\ \A p \in Passengers : WF_vars(\E ok \in BOOLEAN : loadRideDetails(p, ok))

\* C15: every booking that is paid is confirmed later on, whatever the users do.
C15_AutoConfirm ==
    \A i \in 1..MaxRows :
        (i <= Len(passenger_requests) /\ passenger_requests[i].status = "paid")
        ~> (i <= Len(passenger_requests) /\ passenger_requests[i].status = "confirmed")

\* The rows of table that are pending bookings of ride r by passenger p.
pendingOf(table, r, p) ==
    { i \in 1..Len(table) :
        table[i].ride_id = r /\ table[i].passenger_id = p /\ table[i].status = "pending" }

\* The rows of passenger_requests whose status Pay Now changes for ride r and
\* passenger p (handlePayment writes no other table).
payChanges(r, p) ==
    { i \in 1..Len(passenger_requests) :
        markPaid(passenger_requests, r, p)[i].status # passenger_requests[i].status }

\* C19: whenever a passenger who has a pending booking of ride r (made from
\* either list screen) can press Pay Now for r, the press changes the status of
\* exactly one booking row, and that row is a pending booking of r by them.
C19_PayTargetsCreated ==
    \A p \in Passengers :
        ( /\ ~bookingLoading[p]
          /\ bookingRide[p] # 0
          /\ pendingOf(bookings, bookingRideId[p], p)
                \cup pendingOf(passenger_requests, bookingRideId[p], p) # {} )
        => /\ Cardinality(payChanges(bookingRideId[p], p)) = 1
           /\ payChanges(bookingRideId[p], p)
                 \subseteq pendingOf(passenger_requests, bookingRideId[p], p)


(***************************************************************************)
(* Posting rides.                                                          *)
(***************************************************************************)
\* Texts typed into the seats input of a post-ride screen.
SeatTexts == { <<>>, <<"-">>, <<"0">>, <<"1">>, <<"2">>, <<"-", "1">> }
\* Texts typed into the price input of a post-ride screen.
PriceTexts == { <<>>, <<"1">> }

\* insert into rides: NaN is sent as null, which the NOT NULL columns refuse.
insertRide(table, departure_time, price, seats, status, origin, destination) ==
    Append(table, RideRow(Len(table) + 1, departure_time, price.v, seats.v, status,
                          origin, destination))

\* PostRideScreen.handleSubmit of the map version (status 'pending').
\* hasLocations: origin and destination are set; ok: the insert succeeded.
handleSubmitMap(p, hasLocations, seats, pricePerSeat, date, user, ok) ==
    LET error ==
          IF ~hasLocations THEN "Please select both pickup and dropoff locations"
          ELSE IF seats = <<>> \/ pricePerSeat = <<>> THEN "Please fill in all required fields"
          ELSE IF user = noUser THEN "No user found"
          ELSE IF ~ok \/ parseInt(seats) = NaN \/ parseInt(pricePerSeat) = NaN
               THEN "Failed to post ride"
          ELSE noError
    IN  /\ Len(ridesTable) < MaxRides
        /\ postError' = [postError EXCEPT ![p] = error]
        /\ ridesTable' =
              IF error = noError
              THEN insertRide(ridesTable, date, parseInt(pricePerSeat), parseInt(seats),
                              "pending", "Kampala", "Gulu")
              ELSE ridesTable
        /\ UNCHANGED <<bookings, passenger_requests, now, findVars, ridesScreenVars,
                       bookingVars, paymentVars, availableRides, accountVars, sessionVars>>

\* PostRideScreen.validateForm + handleSubmit of the city version (status
\* 'active', origin_city / destination_city instead of addresses).  A failure
\* only raises an alert.  formFilled: the other required fields are filled.
handleSubmitCity(p, formFilled, availableSeats, pricePerSeat, date, user, hasProfile, ok) ==
    /\ Len(ridesTable) < MaxRides
    /\ formFilled /\ availableSeats # <<>> /\ pricePerSeat # <<>>
    /\ user # noUser /\ hasProfile
    /\ ok /\ parseInt(availableSeats) # NaN /\ parseInt(pricePerSeat) # NaN
    /\ ridesTable' = insertRide(ridesTable, date, parseInt(pricePerSeat),
                                parseInt(availableSeats), "active", noAddress, noAddress)
    /\ UNCHANGED <<bookings, passenger_requests, now, findVars, ridesScreenVars,
                   bookingVars, restVars>>

(***************************************************************************)
(* Loading the ride lists.                                                 *)
(***************************************************************************)
\* FindRideScreen.loadRides; the list is rendered afresh.
loadRides(p, ok) ==
    /\ IF ok
       THEN /\ rides' = [rides EXCEPT ![p] = findQuery(ridesTable, now)]
            /\ data' = [data EXCEPT ![p] =
                          pipeline(sortBy[p], filterOf(p), findQuery(ridesTable, now))]
       ELSE UNCHANGED <<rides, data>>
    /\ loading' = [loading EXCEPT ![p] = FALSE]
    /\ UNCHANGED <<tableVars, now, restVars, ridesScreenVars, bookingVars,
                   sortBy, minPrice, maxPrice, minSeats, selectedDate>>

noParam == "none"   \* a route parameter that is not given

\* ilike '%pattern%' on the place names of the model: no name contains another.
ilike(address, pattern) == address # noAddress /\ address = pattern

\* The criteria RidesScreen.loadRides adds for the route parameters present.
\* The date criterion is [day T00:00:00, day T23:59:59), the last instant of
\* the day being T23:59:59.
matchesParams(r, params) ==
    /\ (params.origin # noParam => ilike(r.origin_address, params.origin))
    /\ (params.destination # noParam => ilike(r.destination_address, params.destination))
    /\ (params.date # null =>
           /\ r.departure_time >= DayOf(params.date.v) * TicksPerDay
           /\ r.departure_time < DayOf(params.date.v) * TicksPerDay + (TicksPerDay - 1))
    /\ (params.seats # <<>> => r.available_seats >= parseInt(params.seats).v)
    /\ (params.minPrice # <<>> => r.price_per_seat >= parseInt(params.minPrice).v)
    /\ (params.maxPrice # <<>> => r.price_per_seat <= parseInt(params.maxPrice).v)

\* The query of RidesScreen.loadRides, ordered by departure_time ascending.
ridesScreenQuery(table, t, params) ==
    sortRides("date_asc",
        SelectSeq(table, LAMBDA r : /\ r.status = "pending"
                                    /\ r.available_seats > 0
                                    /\ r.departure_time >= t
                                    /\ matchesParams(r, params)))

\* RidesScreen.loadRides.
ridesScreenLoadRides(p, params, user, ok) ==
    /\ IF user = noUser
       THEN /\ ridesScreenError' = [ridesScreenError EXCEPT ![p] = noError]
            /\ UNCHANGED ridesScreenRides
       ELSE IF ok
       THEN /\ ridesScreenError' = [ridesScreenError EXCEPT ![p] = noError]
            /\ ridesScreenRides' =
                  [ridesScreenRides EXCEPT ![p] = ridesScreenQuery(ridesTable, now, params)]
       ELSE /\ ridesScreenError' = [ridesScreenError EXCEPT ![p] = "Failed to load rides"]
            /\ UNCHANGED ridesScreenRides
    /\ ridesScreenLoading' = [ridesScreenLoading EXCEPT ![p] = FALSE]
    /\ UNCHANGED <<tableVars, now, restVars, findVars, bookingVars>>

\* The query of HomeScreen.loadAvailableRides.
homeQuery(table) ==
    SelectSeq(table, LAMBDA r : r.status = "pending" /\ r.available_seats > 0)

\* HomeScreen.loadAvailableRides; hasRoute: origin and destination are set.
loadAvailableRides(p, hasRoute, ok) ==
    /\ hasRoute
    /\ availableRides' = IF ok THEN [availableRides EXCEPT ![p] = homeQuery(ridesTable)]
                         ELSE availableRides
    /\ UNCHANGED <<tableVars, now, findVars, ridesScreenVars, bookingVars,
                   paymentVars, postError, accountVars, sessionVars>>

\* Time passes.
Tick ==
    /\ now < MaxTime
    /\ now' = now + 1
    /\ UNCHANGED <<tableVars, findVars, ridesScreenVars, bookingVars, restVars>>

noParams == [origin |-> noParam, destination |-> noParam, date |-> null,
             seats |-> <<>>, minPrice |-> <<>>, maxPrice |-> <<>>]

\* Route parameters of RidesScreen: none, one criterion, or all of them.
RideParams ==
    {noParams}
    \cup { [noParams EXCEPT !.origin = a] : a \in {"Kampala", "Gulu"} }
    \cup { [noParams EXCEPT !.destination = a] : a \in {"Kampala", "Gulu"} }
    \cup { [noParams EXCEPT !.date = Num(d)] : d \in 0..MaxTime }
    \cup { [noParams EXCEPT !.seats = <<"2">>], [noParams EXCEPT !.minPrice = <<"1">>],
           [noParams EXCEPT !.maxPrice = <<"0">>] }
    \cup { [origin |-> "Kampala", destination |-> "Gulu", date |-> Num(d),
            seats |-> <<"1">>, minPrice |-> <<"1">>, maxPrice |-> <<"1">>] : d \in 0..MaxTime }

\* A fresh installation: no rides, nothing loaded.
InitEmpty ==
    /\ InitPayments({"sandbox"})
    /\ InitScreens
    /\ ridesTable = <<>>
    /\ bookings = <<>>
    /\ passenger_requests = <<>>
    /\ now = 0
    /\ rides = [p \in Passengers |-> <<>>]
    /\ data = [p \in Passengers |-> <<>>]
    /\ loading = [p \in Passengers |-> TRUE]
    /\ ridesScreenRides = [p \in Passengers |-> <<>>]
    /\ ridesScreenLoading = [p \in Passengers |-> TRUE]

postRide(dates) ==
    \/ \E hasLocations \in BOOLEAN, seats \in SeatTexts, pricePerSeat \in PriceTexts,
          date \in dates, user \in {Dev, noUser}, ok \in BOOLEAN :
          handleSubmitMap(Dev, hasLocations, seats, pricePerSeat, date, user, ok)
    \/ \E formFilled \in BOOLEAN, seats \in SeatTexts, pricePerSeat \in PriceTexts,
          date \in dates, user \in {Dev, noUser}, hasProfile \in BOOLEAN, ok \in BOOLEAN :
          handleSubmitCity(Dev, formFilled, seats, pricePerSeat, date, user, hasProfile, ok)

\* Posting, searching on the three list screens, and time.
NextSearch ==
    \/ postRide(0..MaxTime)
    \/ \E ok \in BOOLEAN : loadRides(Dev, ok)
    \/ \E params \in RideParams, user \in {Dev, noUser}, ok \in BOOLEAN :
          ridesScreenLoadRides(Dev, params, user, ok)
    \/ \E hasRoute \in BOOLEAN, ok \in BOOLEAN : loadAvailableRides(Dev, hasRoute, ok)
    \/ Tick

SpecSearch == InitEmpty /\ [][NextSearch]_vars

\* Posting and booking from FindRideScreen.
NextPost ==
    \/ postRide({MaxTime})
    \/ \E ok \in BOOLEAN : loadRides(Dev, ok)
    \/ \E rideId \in 1..Len(ridesTable), user \in {Dev, noUser}, ok \in BOOLEAN :
          handleBookRide(Dev, rideId, user, ok)
    \/ \E ok \in BOOLEAN : loadRideDetails(Dev, ok)

SpecPost == InitEmpty /\ [][NextPost]_vars

\* C13: a ride load that fails does not leave a list screen in the state a
\* successful load of zero rides leaves it in: FindRideScreen with an empty
\* list and loading off ('No rides available'), RidesScreen with an empty list
\* and no error ('No rides found matching your criteria').
C13_FailureDistinct ==
    [][ \A p \in Passengers :
          /\ loadRides(p, FALSE) => ~(rides'[p] = <<>> /\ ~loading'[p])
          /\ (\E params \in RideParams : ridesScreenLoadRides(p, params, p, FALSE))
             => ~( /\ ridesScreenRides'[p] = <<>>
                   /\ ~ridesScreenLoading'[p]
                   /\ ridesScreenError'[p] = noError ) ]_vars

\* C22: a successful load of FindRideScreen returns every ride of the table
\* that has a free seat and does not depart before now.
C22_PostedSearchable ==
    [][ \A p \in Passengers :
          loadRides(p, TRUE) =>
             \A r \in 1..Len(ridesTable) :
                (ridesTable[r].available_seats > 0 /\ ridesTable[r].departure_time >= now)
                => ridesTable[r] \in Range(rides'[p]) ]_vars

\* C23: for every ride of the table and every date, the date criterion of
\* RidesScreen.loadRides selects the ride exactly when the calendar-day match
\* of filterRides does.
C23_DateEquivalence ==
    \A r \in 1..Len(ridesTable) : \A d \in 0..MaxTime :
        matchesParams(ridesTable[r], [noParams EXCEPT !.date = Num(d)])
        <=> keepRide([minPrice |-> null, maxPrice |-> null, minSeats |-> null,
                      selectedDate |-> Num(d)], ridesTable[r])

\* C17: every ride row has a status of the Ride type.
C17_RideStatusDomain ==
    \A r \in 1..Len(ridesTable) : ridesTable[r].status \in RideStatus

\* C4: every ride row has available_seats >= 0.
C4_NonNegativeSeats ==
    \A r \in 1..Len(ridesTable) : ridesTable[r].available_seats >= 0

floorFilter(list, t) ==
    \A i \in 1..Len(list) :
        /\ list[i].status = "pending"
        /\ list[i].available_seats > 0
        /\ list[i].departure_time >= t

\* C7: whenever a list screen takes a new list from its query, every ride of
\* the list is pending, has a free seat and does not depart before now.
C7_FloorFilter ==
    [][ \A p \in Passengers :
          /\ rides'[p] # rides[p] => floorFilter(rides'[p], now)
          /\ ridesScreenRides'[p] # ridesScreenRides[p] => floorFilter(ridesScreenRides'[p], now)
          /\ availableRides'[p] # availableRides[p] => floorFilter(availableRides'[p], now) ]_vars


(***************************************************************************)
(* DriverDashboard.                                                        *)
(***************************************************************************)
\* The rides of the current day: departure_time >= today and < today T23:59:59
\* (the ride rows of the model carry no driver_id; the query is the one of the
\* driver who posted them).
dashboardQuery(table, t) ==
    sortRides("date_asc",
        SelectSeq(table, LAMBDA r :
            /\ r.departure_time >= DayOf(t) * TicksPerDay
            /\ r.departure_time < DayOf(t) * TicksPerDay + (TicksPerDay - 1)))

\* DriverDashboard.loadDashboardData, run by the mount effect.  completed: the
\* completed_rides of the driver's driver_stats row; statsOk, ridesOk: the two
\* queries succeeded.
loadDashboardData(p, user, completed, statsOk, ridesOk) ==
    /\ dashboardLoading[p]
    /\ dashboardStats' =
          IF user # noUser /\ statsOk /\ ridesOk
          THEN [dashboardStats EXCEPT ![p] = [completedRides |-> completed,
                                              todayRides |-> dashboardQuery(ridesTable, now)]]
          ELSE dashboardStats
    /\ dashboardLoading' = [dashboardLoading EXCEPT ![p] = FALSE]
    /\ UNCHANGED <<tableVars, now, findVars, ridesScreenVars, bookingVars, paymentVars,
                   availableRides, postError, isOnline, driver_status, topUpVars, sessionVars>>

\* DriverDashboard.toggleOnlineStatus, the switch shown once the dashboard is
\* loaded.  ok: the upsert succeeded.  The handler reads isOnline as it was at
\* the render that created it: newStatus = !isOnline is set first, and the catch
\* block sets !isOnline, computed from that same value, again.
toggleOnlineStatus(p, user, ok) ==
    LET newStatus == ~isOnline[p]
        afterSet == [isOnline EXCEPT ![p] = newStatus]
        afterCatch == [afterSet EXCEPT ![p] = ~isOnline[p]]
    IN  /\ ~dashboardLoading[p]
        /\ user # noUser
        /\ isOnline' = IF ok THEN afterSet ELSE afterCatch
        /\ driver_status' = IF ok THEN [driver_status EXCEPT ![user] = newStatus]
                            ELSE driver_status
        /\ UNCHANGED <<tableVars, now, findVars, ridesScreenVars, bookingVars, paymentVars,
                       availableRides, postError, dashboardLoading, dashboardStats, topUpVars, sessionVars>>

(***************************************************************************)
(* AddMoneyScreen.                                                         *)
(***************************************************************************)
\* Texts typed into the amount input.
AmountTexts == { <<>>, <<"0">>, <<"1">>, <<"2">>, <<"-", "1">> }

\* parseFloat(text) for a text of an optional sign and decimal digits (the
\* texts of the model hold no decimal point or exponent): the number parseInt
\* reads, NaN without a digit.
parseFloat(text) == parseInt(text)

\* AddMoneyScreen.handlePayment up to the start of the timer.  The button is
\* disabled while loading.  hasPhone: a phone number is typed; ok: the insert
\* succeeded.
addMoneyHandlePayment(p, amountText, hasPhone, user, ok) ==
    LET amount == parseFloat(amountText)
        id == Len(payment_requests) + 1
    IN  /\ ~addMoneyLoading[p]
        /\ amountText # <<>> /\ hasPhone
        /\ amount # NaN /\ amount.v > 0
        /\ Len(payment_requests) < MaxTopUps
        /\ IF user # noUser /\ ok
           THEN /\ payment_requests' = Append(payment_requests,
                      [id |-> id, user_id |-> user, amount |-> amount.v, status |-> "pending"])
                /\ gatewayTimer' = [gatewayTimer EXCEPT ![p] = id]
                /\ addMoneyLoading' = [addMoneyLoading EXCEPT ![p] = TRUE]
           ELSE /\ addMoneyLoading' = [addMoneyLoading EXCEPT ![p] = FALSE]
                /\ UNCHANGED <<payment_requests, gatewayTimer>>
        /\ UNCHANGED <<tableVars, now, findVars, ridesScreenVars, bookingVars, paymentVars,
                       availableRides, postError, dashboardVars, sessionVars>>

\* The setTimeout callback of AddMoneyScreen.handlePayment: update the payment
\* request, insert the transaction, credit the wallet; the first step that
\* fails ends the callback.  updateOk, insertOk, rpcOk: the step succeeded.
gatewayCallback(p, updateOk, insertOk, rpcOk) ==
    LET request == payment_requests[gatewayTimer[p]]
    IN  /\ gatewayTimer[p] # 0
        /\ payment_requests' = IF updateOk
                               THEN [payment_requests EXCEPT ![request.id].status = "completed"]
                               ELSE payment_requests
        /\ transactions' = IF updateOk /\ insertOk
                           THEN Append(transactions,
                                  [user_id |-> request.user_id, type |-> "credit",
                                   amount |-> request.amount, status |-> "completed"])
                           ELSE transactions
        /\ wallet_balance' = IF updateOk /\ insertOk /\ rpcOk
                             THEN update_wallet_balance(wallet_balance, request.user_id,
                                                        request.amount)
                             ELSE wallet_balance
        /\ addMoneyLoading' = [addMoneyLoading EXCEPT ![p] = FALSE]
        /\ gatewayTimer' = [gatewayTimer EXCEPT ![p] = 0]
        /\ UNCHANGED <<tableVars, now, findVars, ridesScreenVars, bookingVars, paymentResponses,
                       paymentMode, availableRides, postError, dashboardVars, sessionVars>>

\* The dashboard of the driver on device Dev and the top-ups of every user.
NextAccount ==
    \/ \E user \in {Dev, noUser}, completed \in 0..1, statsOk \in BOOLEAN, ridesOk \in BOOLEAN :
          loadDashboardData(Dev, user, completed, statsOk, ridesOk)
    \/ \E user \in {Dev, noUser}, ok \in BOOLEAN : toggleOnlineStatus(Dev, user, ok)
    \/ \E p \in Passengers, amountText \in AmountTexts, hasPhone \in BOOLEAN,
          ok \in BOOLEAN : \E user \in {p, noUser} :
          addMoneyHandlePayment(p, amountText, hasPhone, user, ok)
    \/ \E p \in Passengers, updateOk \in BOOLEAN, insertOk \in BOOLEAN, rpcOk \in BOOLEAN :
          gatewayCallback(p, updateOk, insertOk, rpcOk)

SpecAccount == InitEmpty /\ [][NextAccount]_vars

\* C18: a toggle whose upsert fails leaves isOnline at the value it had before
\* the press; a toggle whose upsert succeeds negates it.
C18_ToggleReverts ==
    [][ \A p \in Passengers :
          /\ toggleOnlineStatus(p, p, FALSE) => isOnline'[p] = isOnline[p]
          /\ toggleOnlineStatus(p, p, TRUE) => isOnline'[p] = ~isOnline[p] ]_vars

\* The sum of the amounts of the rows of table.
RECURSIVE amountTotal(_)
amountTotal(table) ==
    IF table = <<>> THEN 0 ELSE Head(table).amount + amountTotal(Tail(table))

\* C20: for a user whose gateway callbacks have all finished, the amounts of
\* the completed payment requests, the amounts of the completed credit
\* transactions and the wallet balance (0 at the start) are the same: a request
\* is completed exactly when its transaction exists and its amount was credited once.
C20_TopUpAllOrNothing ==
    \A u \in Passengers :
        (\A p \in Passengers :
            gatewayTimer[p] # 0 => payment_requests[gatewayTimer[p]].user_id # u)
        => LET requested == amountTotal(SelectSeq(payment_requests,
                              LAMBDA r : r.user_id = u /\ r.status = "completed"))
               recorded == amountTotal(SelectSeq(transactions,
                              LAMBDA r : r.user_id = u /\ r.type = "credit"
                                         /\ r.status = "completed"))
           IN  requested = recorded /\ recorded = wallet_balance[u]


(***************************************************************************)
(* The supabase auth client on device Dev and the two root layouts that    *)
(* listen to it.                                                           *)
(***************************************************************************)
removeAt(seq, i) == [j \in 1..(Len(seq) - 1) |-> IF j < i THEN seq[j] ELSE seq[j + 1]]

\* A sign-in (OTP verified): the client holds a session and notifies its
\* listeners with SIGNED_IN.
signIn ==
    /\ authSession = noUser
    /\ authEvents < MaxAuthEvents
    /\ authSession' = Dev
    /\ authEvents' = authEvents + 1
    /\ flagsInbox' = Append(flagsInbox, [event |-> "SIGNED_IN", session |-> Dev])
    /\ guardInbox' = Append(guardInbox, [event |-> "SIGNED_IN", session |-> Dev])
    /\ UNCHANGED <<tableVars, now, findVars, ridesScreenVars, bookingVars, paymentVars,
                   availableRides, postError, accountVars, isAuthenticated, isProfileComplete,
                   rootLoading, checkAuthStatePc, flagsChecks, guardInitializing, guardSession,
                   route, guardChecks, redirects, chatVars>>

\* A sign-out: the session is dropped and the listeners are notified with SIGNED_OUT.
signOut ==
    /\ authSession # noUser
    /\ authEvents < MaxAuthEvents
    /\ authSession' = noUser
    /\ authEvents' = authEvents + 1
    /\ flagsInbox' = Append(flagsInbox, [event |-> "SIGNED_OUT", session |-> noUser])
    /\ guardInbox' = Append(guardInbox, [event |-> "SIGNED_OUT", session |-> noUser])
    /\ UNCHANGED <<tableVars, now, findVars, ridesScreenVars, bookingVars, paymentVars,
                   availableRides, postError, accountVars, isAuthenticated, isProfileComplete,
                   rootLoading, checkAuthStatePc, flagsChecks, guardInitializing, guardSession,
                   route, guardChecks, redirects, chatVars>>

\* What a profiles query sent with (authed) or without a session can answer:
\* the row with a full_name, the row without one, or an error; without a
\* session no row is visible.
ProfileAnswers(authed) == IF authed THEN {"name", "noName", "error"} ELSE {"error"}

(***************************************************************************)
(* RootLayout with isAuthenticated / isProfileComplete (flags layout).     *)
(***************************************************************************)
flagsFrame ==
    UNCHANGED <<tableVars, now, findVars, ridesScreenVars, bookingVars, paymentVars,
                availableRides, postError, accountVars, authClientVars, guardVars, chatVars>>

\* checkAuthState up to its await of checkProfileSetup: getSession resolves
\* (ok) or throws.
checkAuthStateSession(ok) ==
    /\ checkAuthStatePc = "getSession"
    /\ IF ok
       THEN /\ isAuthenticated' = (authSession # noUser)
            /\ checkAuthStatePc' = IF authSession # noUser THEN "checkProfileSetup" ELSE "done"
            /\ rootLoading' = (authSession # noUser)
       ELSE /\ checkAuthStatePc' = "done"
            /\ rootLoading' = FALSE
            /\ UNCHANGED isAuthenticated
    /\ UNCHANGED <<flagsInbox, isProfileComplete, flagsChecks>>
    /\ flagsFrame

\* checkAuthState from the answer of its checkProfileSetup to its end.
checkAuthStateProfile(answer) ==
    /\ checkAuthStatePc = "checkProfileSetup"
    /\ isProfileComplete' = (answer = "name")
    /\ rootLoading' = FALSE
    /\ checkAuthStatePc' = "done"
    /\ UNCHANGED <<flagsInbox, isAuthenticated, flagsChecks>>
    /\ flagsFrame

\* The onAuthStateChange callback of the flags layout, up to its await: the
\* query of checkProfileSetup is sent with the session the client holds then.
flagsOnAuthStateChange ==
    /\ flagsInbox # <<>>
    /\ flagsInbox' = Tail(flagsInbox)
    /\ IF Head(flagsInbox).event = "SIGNED_IN"
       THEN /\ Len(flagsChecks) < MaxChecks
            /\ isAuthenticated' = TRUE
            /\ flagsChecks' = Append(flagsChecks, authSession # noUser)
            /\ UNCHANGED isProfileComplete
       ELSE /\ isAuthenticated' = FALSE
            /\ isProfileComplete' = FALSE
            /\ UNCHANGED flagsChecks
    /\ UNCHANGED <<rootLoading, checkAuthStatePc>>
    /\ flagsFrame

\* The rest of checkProfileSetup called by the listener: the answer of query i.
checkProfileSetup(i, answer) ==
    /\ i \in 1..Len(flagsChecks)
    /\ answer \in ProfileAnswers(flagsChecks[i])
    /\ isProfileComplete' = (answer = "name")
    /\ flagsChecks' = removeAt(flagsChecks, i)
    /\ UNCHANGED <<flagsInbox, isAuthenticated, rootLoading, checkAuthStatePc>>
    /\ flagsFrame

NextFlags ==
    \/ signIn
    \/ signOut
    \/ \E ok \in BOOLEAN : checkAuthStateSession(ok)
    \/ \E answer \in ProfileAnswers(TRUE) : checkAuthStateProfile(answer)
    \/ flagsOnAuthStateChange
    \/ \E i \in 1..MaxChecks, answer \in ProfileAnswers(TRUE) : checkProfileSetup(i, answer)

SpecFlags == InitEmpty /\ [][NextFlags]_vars

\* C24: whenever isAuthenticated is false, isProfileComplete is false.
C24_FlagsConsistent == ~isAuthenticated => ~isProfileComplete


(***************************************************************************)
(* RootLayout with the protected segments (guard layout).                  *)
(***************************************************************************)
\* segments[0] of a route.
firstSegment(r) ==
    IF r \in {"(auth)/verify", "(auth)/otp", "(auth)/profile-setup"} THEN "(auth)"
    ELSE IF r = "index" THEN ""
    ELSE r

isAuthGroup(r) == firstSegment(r) = "(auth)"

inProtectedRoute(r) ==
    firstSegment(r) = "(tabs)" \/ firstSegment(r) \in {"post-ride", "booking", "chat", "wallet"}

\* The effect on [session, segments, initializing], run after a handler changed
\* one of them, and run again after its own redirect.  checks: the checkProfile
\* queries in flight; issued: the router.replace targets issued so far.
guardEffect(initializing, session, r, checks, issued) ==
    IF initializing THEN [route |-> r, checks |-> checks, redirects |-> issued]
    ELSE IF session = noUser /\ inProtectedRoute(r)
    THEN [route |-> "(auth)/verify", checks |-> checks,
          redirects |-> Append(issued, "(auth)/verify")]
    ELSE IF session # noUser /\ isAuthGroup(r)
    THEN [route |-> r, checks |-> Append(checks, authSession # noUser), redirects |-> issued]
    ELSE [route |-> r, checks |-> checks, redirects |-> issued]

\* The state after a handler of the guard layout: the effect runs when one of
\* its dependencies changed.
guardAfter(initializing, session, r, checks, issued, depsChanged) ==
    LET after == IF depsChanged THEN guardEffect(initializing, session, r, checks, issued)
                 ELSE [route |-> r, checks |-> checks, redirects |-> issued]
    IN  /\ Len(after.checks) <= MaxChecks
        /\ guardInitializing' = initializing
        /\ guardSession' = session
        /\ route' = after.route
        /\ guardChecks' = after.checks
        /\ redirects' = after.redirects

guardFrame ==
    UNCHANGED <<tableVars, now, findVars, ridesScreenVars, bookingVars, paymentVars,
                availableRides, postError, accountVars, authClientVars, flagsVars, chatVars>>

\* getSession().then(...): setSession(session); setInitializing(false).
guardGetSession ==
    /\ guardInitializing
    /\ guardAfter(FALSE, authSession, route, guardChecks, <<>>, TRUE)
    /\ UNCHANGED guardInbox
    /\ guardFrame

\* The onAuthStateChange callback of the guard layout: setSession(session).
\* A session object is a new dependency value; null after null is not.
guardOnAuthStateChange ==
    /\ guardInbox # <<>>
    /\ guardInbox' = Tail(guardInbox)
    /\ guardAfter(guardInitializing, Head(guardInbox).session, route, guardChecks, <<>>,
                  Head(guardInbox).session # noUser \/ guardSession # noUser)
    /\ guardFrame

\* The user (or a link) opens route r.
navigate(r) ==
    /\ r # route
    /\ guardAfter(guardInitializing, guardSession, r, guardChecks, <<>>, TRUE)
    /\ UNCHANGED guardInbox
    /\ guardFrame

\* checkProfile from the answer of its query i: a full_name sends the user to
\* /(tabs), anything else to /(auth)/profile-setup.
checkProfile(i, answer) ==
    /\ i \in 1..Len(guardChecks)
    /\ answer \in ProfileAnswers(guardChecks[i])
    /\ LET target == IF answer = "name" THEN "(tabs)" ELSE "(auth)/profile-setup"
       IN  guardAfter(guardInitializing, guardSession, target, removeAt(guardChecks, i),
                      <<target>>, target # route)
    /\ UNCHANGED guardInbox
    /\ guardFrame

NextGuard ==
    \/ signIn
    \/ signOut
    \/ guardGetSession
    \/ guardOnAuthStateChange
    \/ \E r \in Routes : navigate(r)
    \/ \E i \in 1..MaxChecks, answer \in ProfileAnswers(TRUE) : checkProfile(i, answer)

SpecGuard == InitEmpty /\ [][NextGuard]_vars

\* C25: after initialization no protected route is shown without a session
\* (the layout has redirected to /(auth)/verify); an answered profile check
\* sends the user to /(tabs) with a full_name and to /(auth)/profile-setup
\* otherwise; and no handler issues a redirect to /(tabs) without a session.
C25_RouteGuard ==
    [][ /\ (~guardInitializing' /\ guardSession' = noUser) => ~inProtectedRoute(route')
        /\ \A i \in 1..Len(guardChecks) : \A answer \in ProfileAnswers(guardChecks[i]) :
              checkProfile(i, answer)
              => redirects'[1] = IF answer = "name" THEN "(tabs)" ELSE "(auth)/profile-setup"
        /\ Len(guardInbox') <= Len(guardInbox)
           => \A k \in 1..Len(redirects') :
                 redirects'[k] = "(tabs)" => guardSession # noUser ]_vars

(***************************************************************************)
(* ChatScreen (app/chat/[userId].tsx).  Every await of a handler and every *)
(* realtime event delivered to a session is an entry of chatPending, taken *)
(* up again by chatResume in any order.  The queries answer without error  *)
(* and every user has a profiles row.                                      *)
(***************************************************************************)
chatFrame ==
    UNCHANGED <<tableVars, now, findVars, ridesScreenVars, bookingVars, paymentVars,
                availableRides, postError, accountVars, authVars>>

\* `${profile.id}_${userId}`
chat_id(profileId, userId) == <<profileId, userId>>

await(k, user, id) == [k |-> k, user |-> user, id |-> id]

\* loadMessages called from a render whose currentUser is cu, up to its first
\* await: without a user it returns at once and its finally sets loading false.
loadMessagesCall(cu, isLoading) ==
    IF cu = noUser
    THEN [pending |-> <<>>, loading |-> FALSE]
    ELSE [pending |-> <<await("loadMessages.profile", cu, 0)>>, loading |-> isLoading]

\* subscribeToMessages called from a render whose currentUser is cu, up to the
\* profiles query it starts.
subscribeToMessagesCall(cu) ==
    IF cu = noUser THEN <<>> ELSE <<await("subscribeToMessages.profile", cu, 0)>>

\* The mount effect (deps []): it runs once, in the closure of the first
\* render, whose currentUser is the initial state of useState.
chatMount(s, userId) ==
    /\ chatUserId[s] = noUser
    /\ LET cu == currentUser[s]
           lm == loadMessagesCall(cu, chatLoading[s])
       IN  /\ chatPending' = [chatPending EXCEPT ![s] =
                  <<await("loadCurrentUser", noUser, 0)>> \o lm.pending
                  \o subscribeToMessagesCall(cu)]
           /\ chatLoading' = [chatLoading EXCEPT ![s] = lm.loading]
    /\ chatUserId' = [chatUserId EXCEPT ![s] = userId]
    /\ UNCHANGED <<messagesTable, currentUser, messages, chatChannels>>
    /\ chatFrame

\* The rows of the table messages of one chat, ordered by created_at.
chatRows(id) == SelectSeq(messagesTable, LAMBDA r : r.chat_id = id)

\* update({status: 'read'}).eq('sender_id', userId).eq('status', 'delivered')
markRead(userId) ==
    [id \in DOMAIN messagesTable |->
        IF messagesTable[id].sender_id = userId /\ messagesTable[id].status = "delivered"
        THEN [messagesTable[id] EXCEPT !.status = "read"]
        ELSE messagesTable[id]]

\* update({status: 'delivered'}).eq('id', newMessage.id)
markDelivered(id) == [messagesTable EXCEPT ![id].status = "delivered"]

\* Session s takes up its i-th pending await or realtime event.
chatResume(s, i) ==
    /\ i \in 1..Len(chatPending[s])
    /\ LET a == chatPending[s][i]
           rest == removeAt(chatPending[s], i)
           userId == chatUserId[s]
           then(k) == [chatPending EXCEPT ![s] = rest \o <<await(k, a.user, a.id)>>]
           done == [chatPending EXCEPT ![s] = rest]
       IN  CASE a.k = "loadCurrentUser" ->
                  \* setCurrentUser(user)
                  /\ currentUser' = [currentUser EXCEPT ![s] = deviceUser(s)]
                  /\ chatPending' = done
                  /\ UNCHANGED <<messagesTable, messages, chatLoading, chatChannels>>
             [] a.k = "loadMessages.profile" ->
                  /\ chatPending' = then("loadMessages.messages")
                  /\ UNCHANGED <<messagesTable, currentUser, messages, chatLoading,
                                 chatChannels>>
             [] a.k = "loadMessages.messages" ->
                  \* setMessages(messages || []), then the update when there are rows
                  LET rows == chatRows(chat_id(a.user, userId))
                  IN  /\ messages' = [messages EXCEPT ![s] = rows]
                      /\ chatPending' = IF rows # <<>> THEN then("loadMessages.update")
                                        ELSE done
                      /\ chatLoading' = IF rows # <<>> THEN chatLoading
                                        ELSE [chatLoading EXCEPT ![s] = FALSE]
                      /\ UNCHANGED <<messagesTable, currentUser, chatChannels>>
             [] a.k = "loadMessages.update" ->
                  /\ messagesTable' = markRead(userId)
                  /\ chatLoading' = [chatLoading EXCEPT ![s] = FALSE]
                  /\ chatPending' = done
                  /\ UNCHANGED <<currentUser, messages, chatChannels>>
             [] a.k = "subscribeToMessages.profile" ->
                  \* channel('chat_messages').on(INSERT, filter chat_id).subscribe()
                  /\ chatChannels' = [chatChannels EXCEPT ![s] =
                                         Append(@, chat_id(a.user, userId))]
                  /\ chatPending' = done
                  /\ UNCHANGED <<messagesTable, currentUser, messages, chatLoading>>
             [] a.k = "INSERT" ->
                  \* the realtime callback with payload.new, the row as inserted
                  LET newMessage == [messagesTable[a.id] EXCEPT !.status = "sent"]
                  IN  /\ messages' = [messages EXCEPT ![s] = Append(@, newMessage)]
                      /\ chatPending' = IF newMessage.sender_id = userId
                                        THEN then("INSERT.update") ELSE done
                      /\ UNCHANGED <<messagesTable, currentUser, chatLoading, chatChannels>>
             [] a.k = "INSERT.update" ->
                  /\ messagesTable' = markDelivered(a.id)
                  /\ chatPending' = done
                  /\ UNCHANGED <<currentUser, messages, chatLoading, chatChannels>>
    /\ UNCHANGED chatUserId
    /\ chatFrame

\* The sessions whose channel filter lets an inserted row through.
listening(t, row) == \E c \in 1..Len(chatChannels[t]) : chatChannels[t][c] = row.chat_id

\* handleSend of the current render: without a user it returns, otherwise it
\* inserts the message with status 'sent'; the backend emits the INSERT event
\* to every subscribed channel whose filter matches.
handleSend(s) ==
    /\ chatUserId[s] # noUser
    /\ currentUser[s] # noUser
    /\ Len(messagesTable) < MaxMessages
    /\ LET row == [id |-> Len(messagesTable) + 1,
                   chat_id |-> chat_id(currentUser[s], chatUserId[s]),
                   sender_id |-> currentUser[s],
                   receiver_id |-> chatUserId[s],
                   status |-> "sent"]
       IN  /\ messagesTable' = Append(messagesTable, row)
           /\ chatPending' = [t \in Sessions |->
                  IF listening(t, row)
                  THEN Append(chatPending[t], await("INSERT", noUser, row.id))
                  ELSE chatPending[t]]
    /\ UNCHANGED <<chatUserId, currentUser, messages, chatLoading, chatChannels>>
    /\ chatFrame

\* The most entries chatPending[s] can hold: the three awaits of a mount and
\* one event per row of the table.
MaxPending == 3 + MaxMessages

NextChat ==
    \/ \E s \in Sessions, userId \in Users : chatMount(s, userId)
    \/ \E s \in Sessions, i \in 1..MaxPending : chatResume(s, i)
    \/ \E s \in Sessions : handleSend(s)

SpecChat == InitEmpty /\ [][NextChat]_vars

\* Every started await is answered and every emitted event is delivered.
SpecChatFair ==
    SpecChat /\ \A s \in Sessions : WF_vars(\E i \in 1..MaxPending : chatResume(s, i))

\* The message list of session s holds the stored rows of its chat.
storedLoaded(s) ==
    LET rows == chatRows(chat_id(deviceUser(s), chatUserId[s]))
    IN  /\ Len(messages[s]) = Len(rows)
        /\ \A k \in 1..Len(rows) : messages[s][k].id = rows[k].id

\* C27: after ChatScreen mounts for a signed-in user, the stored messages of
\* the chat are eventually in the message list and the realtime subscription
\* for new messages is eventually established.
C27_ChatStartUp ==
    \A s \in Sessions :
        (chatUserId[s] # noUser /\ deviceUser(s) # noUser)
        ~> (storedLoaded(s) /\ chatChannels[s] # <<>>)

\* C26: the status of a message only moves forward: a read message stays
\* read, a delivered message never returns to sent.
C26_StatusForward ==
    [][\A id \in DOMAIN messagesTable :
          /\ messagesTable[id].status = "read" => messagesTable'[id].status = "read"
          /\ messagesTable[id].status = "delivered"
             => messagesTable'[id].status \in {"delivered", "read"}]_vars

\* No session ever passes the currentUser test of loadMessages or
\* subscribeToMessages: no status is ever written and no channel subscribed.
C26_StatusNeverWritten ==
    /\ \A id \in DOMAIN messagesTable : messagesTable[id].status = "sent"
    /\ \A s \in Sessions : chatChannels[s] = <<>> /\ messages[s] = <<>>

====
